---- MODULE Spec2Model ----
(***************************************************************************)
(* Zoning MCP server (src/server.js): the bearer-token gate, the JSON-RPC  *)
(* dispatcher of POST /mcp (and its alias POST /sse), POST /ingest, the    *)
(* persisted vector-store handle with get-or-create provisioning, and the  *)
(* outbound search call with its payload-shape fallback.                   *)
(*                                                                         *)
(* JavaScript values are modelled by tags: "undefined" and "null" are the  *)
(* two nullish values, "" is the empty string, "num0"/"num7"/"num5" are    *)
(* the numbers 0, 7 and 5.  Texts that the code searches with includes()   *)
(* are sequences of words.                                                 *)
(*                                                                         *)
(* A handler runs without interruption up to its next await (Node's event  *)
(* loop), so one action is one such run: the arrival of a request up to    *)
(* the first outbound fetch, or the continuation after a fetch settles.    *)
(***************************************************************************)
EXTENDS Integers, Sequences, FiniteSets, TLC

\* Bounds of the model.
NumRequests == 2    \* request slots that may be in flight together
MaxStores == 2      \* vector stores the upstream service will create
MaxLines == 3       \* lines of a search output text
NumStreams == 2     \* event streams of GET /sse that may be open together
MaxPeriods == 3     \* heartbeat periods that pass on one stream

Requests == 1..NumRequests
Streams == 1..NumStreams

VARIABLES
    ALLOW_NO_AUTH,      \* server.js:12, fixed at start-up
    OPENAI_API_KEY,     \* server.js:10, TRUE when the credential is configured
    vectorStoreFile,    \* the content of .vector-store.json (server.js:66)
    nextStoreId,        \* the id the upstream gives the next store it creates
    reqs,               \* per slot: the request being handled and its handler state
    gocLog,             \* the last two returns of getOrCreateVectorStore, in order
    streams,            \* per slot: the event stream of a GET /sse exchange
    lastSaved           \* the id given to the latest saveVectorStore call whose
                        \* write succeeded, 0 when there was none

vars ==
    <<ALLOW_NO_AUTH, OPENAI_API_KEY, vectorStoreFile, nextStoreId, reqs, gocLog,
      streams, lastSaved>>

(***************************************************************************)
(* JavaScript helpers                                                      *)
(***************************************************************************)
\* Truthiness of a tagged value.
Truthy(v) == v \notin {"undefined", "null", "", "num0"}

\* typeof v === 'string'
IsString(v) == v \notin {"undefined", "null", "num0", "num5", "num7"}

\* text.includes(pat), on sequences of words.
Includes(text, pat) ==
    \E i \in 0..(Len(text) - Len(pat)) :
        \A j \in 1..Len(pat) : text[i + j] = pat[j]

\* a ?? b
NullishCoalesce(a, b) == IF a \in {"undefined", "null"} THEN b ELSE a

\* Destructuring default: `x = d` replaces undefined only.
DefaultTo(a, d) == IF a = "undefined" THEN d ELSE a

(***************************************************************************)
(* Constants of the program                                                *)
(***************************************************************************)
MCP_AUTH_TOKEN == "mcp-zoning-token"
JSONRPC_VERSION == "2.0"
UnknownAttachments == <<"Unknown parameter:", "'attachments'">>

(***************************************************************************)
(* The persisted state and loadVectorStore                                 *)
(***************************************************************************)
\* The file is absent, unparseable, or holds a JSON record; id 0 stands for a
\* record without an id field.
FileAbsent == [tag |-> "absent", id |-> 0]
FileCorrupt == [tag |-> "corrupt", id |-> 0]
FileRecord(k) == [tag |-> "record", id |-> k]

\* A loaded or created store object, or null.
NULL == [isNull |-> TRUE, id |-> 0]
Handle(k) == [isNull |-> FALSE, id |-> k]

loadVectorStore_AlwaysNull(file) == NULL

loadVectorStore(file) ==
    IF file.tag = "record" THEN Handle(file.id) ELSE NULL

(***************************************************************************)
(* Responses                                                               *)
(***************************************************************************)
\* error.message: the template of the string and the values interpolated in it.
NoMessage == [template |-> "", status |-> 0, text |-> <<>>]
Msg(t) == [template |-> t, status |-> 0, text |-> <<>>]
MsgStatus(t, s) == [template |-> t, status |-> s, text |-> <<>>]
MsgStatusText(t, s, x) == [template |-> t, status |-> s, text |-> x]

\* What parseSearchResults returns: the JSON text of {results, total_found,
\* query_processed} when structured, else the raw output itself.
Structured(citations) ==
    [structured |-> TRUE, results |-> citations, total_found |-> Len(citations),
     raw |-> <<>>]

Raw(rawOutput) ==
    [structured |-> FALSE, results |-> <<>>, total_found |-> 0, raw |-> rawOutput]

NoContent == Raw(<<>>)

\* What res.json() sent: who sent it, the HTTP status, the keys of the body,
\* and the values the body carries; content is result.content[0].text of a
\* tool result.
NoRes ==
    [sent |-> 0, by |-> "", status |-> 0, keys |-> {}, id |-> "", code |-> 0,
     message |-> NoMessage, from |-> "", output |-> "", content |-> NoContent,
     vectorStoreId |-> 0]

HttpError(by, status, message) ==
    [NoRes EXCEPT !.sent = 1, !.by = by, !.status = status, !.keys = {"error"},
                  !.message = message]

jsonRpcError_DropsFalsyId(id, code, message) ==
    [NoRes EXCEPT !.sent = 1, !.by = "mcp", !.status = 200,
                  !.keys = {"jsonrpc", "id", "error"},
                  !.id = IF Truthy(id) THEN id ELSE "null",
                  !.code = code, !.message = message]

jsonRpcError(id, code, message) ==
    [NoRes EXCEPT !.sent = 1, !.by = "mcp", !.status = 200,
                  !.keys = {"jsonrpc", "id", "error"},
                  !.id = NullishCoalesce(id, "null"),
                  !.code = code, !.message = message]

jsonRpcResult(id, from, output) ==
    [NoRes EXCEPT !.sent = 1, !.by = "mcp", !.status = 200,
                  !.keys = {"jsonrpc", "id", "result"},
                  !.id = NullishCoalesce(id, "null"),
                  !.from = from, !.output = output]

\* The result of a search (server.js:426-433, 448-455): one text part, the
\* parsed output.
toolResult_FailsOnNoCitations(id, from, text) ==
    IF text.total_found = 0
    THEN jsonRpcError(id, -32000, Msg("No citations found"))
    ELSE [jsonRpcResult(id, from, "content") EXCEPT !.content = text]

toolResult(id, from, text) ==
    [jsonRpcResult(id, from, "content") EXCEPT !.content = text]

(***************************************************************************)
(* Requests                                                                *)
(***************************************************************************)
\* The Authorization header as words: <<>> when the header is missing.
NoHeader == <<>>
BasicHeader == <<"Basic", "abc">>
WrongBearer == <<"Bearer", "wrong-token">>
GoodBearer == <<"Bearer", MCP_AUTH_TOKEN>>
AuthHeaders == {NoHeader, BasicHeader, WrongBearer, GoodBearer}

\* A request: the route it is posted to, its Authorization header, whether the
\* multipart body holds the field `file` (/ingest), and the fields of the JSON
\* body (/mcp, /sse).  params and arguments are "undefined", "null" or "object";
\* name and query are read only from an object.
NoInput ==
    [endpoint |-> "", authorization |-> NoHeader, hasFile |-> FALSE,
     jsonrpc |-> "undefined", method |-> "undefined", id |-> "undefined",
     params |-> "undefined", name |-> "undefined", arguments |-> "undefined",
     query |-> "undefined"]

\* The canonical search call.
SearchCall ==
    [NoInput EXCEPT !.endpoint = "/mcp", !.authorization = GoodBearer,
                    !.jsonrpc = "2.0", !.method = "tools/call", !.id = "num7",
                    !.params = "object", !.name = "search_zoning",
                    !.arguments = "object", !.query = "setbacks"]

JsonRpcValues == {"undefined", "2.0", "1.0", ""}
IdValues == {"undefined", "null", "num0", "num7"}
PlainMethods ==
    {"undefined", "initialize", "server/info", "ping", "tools/list", "foo/bar",
     "resources/read"}
QueryValues == {"undefined", "", "setbacks", "num5"}

\* The shapes of `params` of a tools/call.
ParamShapes ==
    {[params |-> "undefined", name |-> "undefined", arguments |-> "undefined",
      query |-> "undefined"],
     [params |-> "null", name |-> "undefined", arguments |-> "undefined",
      query |-> "undefined"]}
    \cup {[params |-> "object", name |-> n, arguments |-> a, query |-> "undefined"] :
            n \in {"undefined", "other_tool", "search_zoning"},
            a \in {"undefined", "null"}}
    \cup {[params |-> "object", name |-> n, arguments |-> "object", query |-> q] :
            n \in {"undefined", "other_tool", "search_zoning"}, q \in QueryValues}

\* JSON bodies: every method without params, and tools/call with every shape.
Bodies ==
    {[NoInput EXCEPT !.jsonrpc = j, !.id = i, !.method = m] :
        j \in JsonRpcValues, i \in IdValues, m \in PlainMethods}
    \cup {[NoInput EXCEPT !.jsonrpc = j, !.id = i, !.method = "tools/call",
                          !.params = p.params, !.name = p.name,
                          !.arguments = p.arguments, !.query = p.query] :
            j \in JsonRpcValues, i \in IdValues, p \in ParamShapes}

\* All requests to a JSON route: every body under the good token, and the
\* canonical search call under every header.
JsonInputs(route) ==
    {[b EXCEPT !.endpoint = route, !.authorization = GoodBearer] : b \in Bodies}
    \cup {[SearchCall EXCEPT !.endpoint = route, !.authorization = h] :
            h \in AuthHeaders}

IngestInputs ==
    {[NoInput EXCEPT !.endpoint = "/ingest", !.authorization = h, !.hasFile = f] :
        h \in AuthHeaders, f \in BOOLEAN}

\* The requests of the concurrent specification: those that reach provisioning.
CoreJsonInputs == {SearchCall}

CoreIngestInputs ==
    {[NoInput EXCEPT !.endpoint = "/ingest", !.authorization = GoodBearer,
                     !.hasFile = TRUE]}

(***************************************************************************)
(* Texts of the search output                                              *)
(***************************************************************************)
\* A text is the sequence of its lines (split at "\n"), a line the sequence
\* of its words (split at single spaces), so an empty word at the end of a
\* line is a trailing space; <<>> is a blank line.  The words of the model
\* hold no slash or backslash.  includes() and the regular expressions look inside
\* words, so the lexicon below says what each word of the model holds.

\* Words that hold ".pdf", with the part of the word up to and including its
\* last ".pdf".
PdfPart ==
    [w \in {"zoning.pdf", "[{\"file\":\"a.pdf\",\"page\":\"3\",\"text\":\"setback"} |->
        IF w = "zoning.pdf" THEN "zoning.pdf" ELSE "[{\"file\":\"a.pdf"]

PdfWords == DOMAIN PdfPart

\* Words that hold "Source:" or "Document:" (and end with it).
LabelWords == {"Source:", "Document:"}

\* Words that hold "Section", "Article" or "Chapter".
SectionWords == {"Section", "Article", "Chapter"}

\* Words that hold one of the citation-marker brackets U+3010 and U+3011;
\* "<4:0+source>" stands for such a marker.
MarkerWords == {"<4:0+source>"}

UnknownDocument == <<"Unknown", "Document">>

\* The lines of the model.
SourceLine == <<"Source:", "zoning.pdf">>
SectionLine == <<"Section", "4.2", "Setbacks">>
SnippetLine == <<"Minimum", "setback", "is", "10", "feet.">>
BlankLine == <<>>
PlainLine == <<"no", "useful", "information", "found">>
DocumentLine == <<"Document:", "Zoning", "Code">>
BareLabelLine == <<"Source:">>
\* "Source: ": a label followed by a space and nothing else.
LabelSpaceLine == <<"Source:", "">>
MentionLine == <<"see", "zoning.pdf", "page", "3">>
MarkerLine == <<"<4:0+source>">>
\* The fence of a code block, its backquotes written as apostrophes.
FenceOpenLine == <<"'''json">>
FenceCloseLine == <<"'''">>
JsonArrayLine == <<"[{\"file\":\"a.pdf\",\"page\":\"3\",\"text\":\"setback", "10ft\"}]">>

Lines ==
    {SourceLine, SectionLine, SnippetLine, BlankLine, PlainLine, DocumentLine,
     BareLabelLine, LabelSpaceLine, MentionLine, MarkerLine, FenceOpenLine, FenceCloseLine,
     JsonArrayLine}

\* Every text of at most MaxLines lines.
Texts == UNION {[1..n -> Lines] : n \in 0..MaxLines}

\* The example texts of the specification's properties P3, P4 and P5.
FencedJsonText == <<FenceOpenLine, JsonArrayLine, FenceCloseLine>>
LineScanText == <<SourceLine, SectionLine, SnippetLine>>
NoCitationText == <<PlainLine>>

(***************************************************************************)
(* parseSearchResults and extractFilename (server.js:494-556)              *)
(***************************************************************************)
WordsOf(line) == {line[i] : i \in 1..Len(line)}

\* line.includes('.pdf')
HoldsPdf(line) == WordsOf(line) \cap PdfWords # {}

\* line.includes('Document:') || line.includes('Source:')
HoldsLabel(line) == WordsOf(line) \cap LabelWords # {}

\* line.includes('Section') || line.includes('Article') || line.includes('Chapter')
HoldsSection(line) == WordsOf(line) \cap SectionWords # {}

\* line.includes of either marker bracket
HoldsMarker(line) == WordsOf(line) \cap MarkerWords # {}

\* line.trim(): the line without the spaces at its ends.
RECURSIVE Trim(_)
Trim(line) ==
    IF line = <<>> THEN <<>>
    ELSE IF Head(line) = "" THEN Trim(Tail(line))
    ELSE IF line[Len(line)] = "" THEN Trim(SubSeq(line, 1, Len(line) - 1))
    ELSE line

\* line.trim() is truthy
NotBlank(line) == Trim(line) # <<>>

\* extractFilename: /([^\/\\]+\.pdf)/i matches from the start of the line (no
\* slash stops it) through the last ".pdf"; otherwise
\* /(?:Source|Document):\s*(.+)/i gives what follows the first label, trimmed
\* (the empty string when only spaces follow), and fails when nothing follows
\* it.
extractFilename(text) ==
    IF HoldsPdf(text)
    THEN LET j == CHOOSE k \in 1..Len(text) :
                    text[k] \in PdfWords
                    /\ \A m \in (k + 1)..Len(text) : text[m] \notin PdfWords
         IN  SubSeq(text, 1, j - 1) \o <<PdfPart[text[j]]>>
    ELSE IF HoldsLabel(text)
    THEN LET i == CHOOSE k \in 1..Len(text) :
                    text[k] \in LabelWords /\ \A m \in 1..(k - 1) : text[m] \notin LabelWords
         IN  IF i < Len(text) THEN Trim(SubSeq(text, i + 1, Len(text)))
             ELSE UnknownDocument
    ELSE UnknownDocument

\* let currentCitation = {}: no field is set; <<>> is the undefined or empty
\* value of a field (only its truthiness is read before a filename is set).
EmptyCitation == [filename |-> <<>>, section |-> <<>>, snippet |-> <<>>]

\* currentCitation.filename is truthy
HasFilename(citation) == citation.filename # <<>>

\* citations.push(currentCitation) under `if (currentCitation.filename)`
pushCitation(citations, currentCitation) ==
    IF HasFilename(currentCitation) THEN Append(citations, currentCitation)
    ELSE citations

\* The loop over the lines (server.js:502-522) and the push of the last
\* citation (server.js:525-527).
RECURSIVE scanLines(_, _, _)
scanLines(lines, citations, currentCitation) ==
    IF lines = <<>> THEN pushCitation(citations, currentCitation)
    ELSE LET line == Head(lines)
             rest == Tail(lines)
         IN  IF HoldsPdf(line) \/ HoldsLabel(line)
             THEN scanLines(rest, pushCitation(citations, currentCitation),
                            [filename |-> extractFilename(line),
                             section |-> <<>>, snippet |-> <<>>])
             ELSE IF HoldsSection(line)
             THEN scanLines(rest, citations,
                            [currentCitation EXCEPT !.section = Trim(line)])
             ELSE IF NotBlank(line) /\ ~HoldsMarker(line)
             THEN scanLines(rest, citations,
                            [currentCitation EXCEPT !.snippet = @ \o Trim(line)])
             ELSE scanLines(rest, citations, currentCitation)

parseSearchResults_AlwaysStructured(rawOutput) ==
    Structured(scanLines(SelectSeq(rawOutput, NotBlank), <<>>, EmptyCitation))

parseSearchResults(rawOutput) ==
    LET lines == SelectSeq(rawOutput, NotBlank)
        citations == scanLines(lines, <<>>, EmptyCitation)
    IN  IF Len(citations) > 0 THEN Structured(citations) ELSE Raw(rawOutput)

(***************************************************************************)
(* Outcomes of an outbound fetch                                           *)
(***************************************************************************)
\* body is the output text of a decoded response body (what extractOutputText
\* finds in it), the empty text when the body holds none or is not read.
NoOutcome == [kind |-> "none", status |-> 0, text |-> <<>>, body |-> <<>>]
Ok(body) == [kind |-> "ok", status |-> 200, text |-> <<>>, body |-> body]
HttpFailure(status, text) ==
    [kind |-> "http_error", status |-> status, text |-> text, body |-> <<>>]
NetworkFailure == [kind |-> "network_error", status |-> 0, text |-> <<>>, body |-> <<>>]

\* A 200 response whose body is not JSON: response.json() rejects.
NotJson == [kind |-> "ok_not_json", status |-> 200, text |-> <<>>, body |-> <<>>]

ErrorTexts ==
    {UnknownAttachments,
     <<"Unknown parameter:", "'tool_resources'">>,
     <<"Internal", "server", "error">>}

\* A text that reports an unknown parameter, whichever parameter it names.
IsUnknownParameterText(text) == Includes(text, <<"Unknown parameter:">>)

\* The responses API: answers of either payload shape.
SearchOutcomes ==
    {Ok(b) : b \in {LineScanText, NoCitationText}}
    \cup {HttpFailure(s, t) : s \in {400, 500}, t \in ErrorTexts}
    \cup {NetworkFailure}

\* Successful searches over every text, the rejection that starts the
\* fallback, and a success whose body cannot be decoded.
ParseOutcomes ==
    {Ok(b) : b \in Texts} \cup {HttpFailure(400, UnknownAttachments), NotJson}

CoreSearchOutcomes ==
    {Ok(LineScanText), HttpFailure(400, UnknownAttachments),
     HttpFailure(500, <<"Internal", "server", "error">>)}

\* The files and vector_stores APIs: only response.ok and status are read.
ApiOutcomes ==
    {Ok(<<>>), NetworkFailure}
    \cup {HttpFailure(s, <<"Internal", "server", "error">>) : s \in {400, 500}}

CoreApiOutcomes == {Ok(<<>>), HttpFailure(500, <<"Internal", "server", "error">>)}

(***************************************************************************)
(* The state of one request handler                                        *)
(***************************************************************************)
\* pc is where the handler waits: "idle" (no request), "createVectorStore",
\* "searchA", "searchB", "upload", "attach" (awaiting that fetch) or "done"
\* (response sent).  calls lists the outbound fetches issued so far, in order.
\* settled lists how the fetches that have settled ended, in the same order.
\* fileReads and fileWrites count the accesses to the persisted state; existed
\* records whether the file held a record when getOrCreateVectorStore loaded it.
Idle ==
    [pc |-> "idle", in |-> NoInput, vectorStore |-> NULL, existed |-> FALSE,
     calls |-> <<>>, settled |-> <<>>, respA |-> NoOutcome, respB |-> NoOutcome,
     fileReads |-> 0, fileWrites |-> 0, res |-> NoRes]

\* The handler once the fetch it awaits has settled with outcome o.
Settled(s, o) == [s EXCEPT !.settled = Append(@, o.kind)]

Arrived(in) == [Idle EXCEPT !.in = in]

\* res.json(...) followed by return: the response goes out and the handler
\* ends.  sent counts the responses of the request.
Respond(s, res) ==
    [s EXCEPT !.pc = "done", !.res = [res EXCEPT !.sent = s.res.sent + res.sent]]

\* The catch block of the /mcp handler (server.js:460-463).
\* (The variant rethrows: the promise of the handler rejects, nothing is sent.)
McpCatch_Rethrows(s, message) == [s EXCEPT !.pc = "unhandled"]

McpCatch(s, message) ==
    Respond(s, jsonRpcError(DefaultTo(s.in.id, "null"), -32000, message))

\* The catch block of the /ingest handler (server.js:252-255).
IngestCatch_ClientError(s, message) == Respond(s, HttpError("ingest", 400, message))

IngestCatch(s, message) == Respond(s, HttpError("ingest", 500, message))

Catch(s, message) ==
    IF s.in.endpoint = "/ingest" THEN IngestCatch(s, message)
    ELSE McpCatch(s, message)

\* error.message of a fetch that failed: the Error thrown on !response.ok, or
\* the rejection of fetch itself.
FailureMessage(template, o) ==
    IF o.kind = "network_error" THEN Msg("fetch failed")
    ELSE MsgStatus(template, o.status)

(***************************************************************************)
(* authenticate (server.js:41-57)                                          *)
(***************************************************************************)
\* The response the middleware sends, or NoRes when it calls next().
authenticate_TokenUnchecked(allowNoAuth, authorization) ==
    IF allowNoAuth THEN NoRes
    ELSE IF Len(authorization) = 0 \/ authorization[1] # "Bearer"
    THEN HttpError("authenticate", 401, Msg("Missing or invalid authorization header"))
    ELSE NoRes

authenticate(allowNoAuth, authorization) ==
    IF allowNoAuth THEN NoRes
    ELSE IF Len(authorization) = 0 \/ authorization[1] # "Bearer"
    THEN HttpError("authenticate", 401, Msg("Missing or invalid authorization header"))
    ELSE IF authorization[2] # MCP_AUTH_TOKEN
    THEN HttpError("authenticate", 401, Msg("Invalid token"))
    ELSE NoRes

(***************************************************************************)
(* getOrCreateVectorStore (server.js:119-131), up to its first await       *)
(***************************************************************************)
\* The fetch that follows getOrCreateVectorStore in the caller.
NextFetch(s) == IF s.in.endpoint = "/ingest" THEN "attach" ELSE "searchA"

\* Loads the file; a loaded store is returned at once and the caller issues
\* its next fetch, otherwise the creation call is issued (createVectorStore,
\* server.js:90).
getOrCreateVectorStore(s, file) ==
    LET vectorStore == loadVectorStore(file)
        t == [s EXCEPT !.fileReads = @ + 1, !.existed = (file.tag = "record")]
    IN  IF vectorStore.isNull
        THEN [t EXCEPT !.pc = "createVectorStore",
                       !.calls = Append(@, "createVectorStore")]
        ELSE [t EXCEPT !.pc = NextFetch(s), !.vectorStore = vectorStore,
                       !.calls = Append(@, NextFetch(s))]

(***************************************************************************)
(* POST /mcp (server.js:259-464), up to its first await                    *)
(***************************************************************************)
\* The static results of server/info, ping and tools/list.
StaticMethods == {"server/info", "ping", "tools/list"}

\* initialize (server.js:280-290): a static result.
initialize_Provisions(s, file) == getOrCreateVectorStore(s, file)

initialize(s, file) ==
    Respond(s, jsonRpcResult(DefaultTo(s.in.id, "null"), "static", "initialize"))

\* !query || typeof query !== 'string' (server.js:342)
queryInvalid_OnlyUndefined(query) == query = "undefined"

queryInvalid(query) == ~Truthy(query) \/ ~IsString(query)

\* The default branch of the dispatcher (server.js:459).
unknownMethod_InternalError(s) ==
    Respond(s, jsonRpcError(DefaultTo(s.in.id, "null"), -32603, Msg("Unknown method")))

unknownMethod(s) ==
    Respond(s, jsonRpcError(DefaultTo(s.in.id, "null"), -32601, Msg("Unknown method")))

\* !method (server.js:275)
methodMissing_Never(method) == FALSE

methodMissing(method) == ~Truthy(method)

\* name !== 'search_zoning' (server.js:336)
unknownTool_Never(name) == FALSE

unknownTool(name) == name # "search_zoning"

\* tools/call (server.js:329-346): the checks before provisioning.
toolsCall(s, file, hasKey) ==
    LET in == s.in
        id == DefaultTo(in.id, "null")
        name == IF in.params = "object" THEN in.name ELSE "undefined"
        args == IF in.params = "object" THEN DefaultTo(in.arguments, "object")
                ELSE "object"
        query == IF in.params = "object" /\ in.arguments = "object"
                 THEN in.query ELSE "undefined"
    IN  IF ~hasKey
        THEN Respond(s, jsonRpcError(id, -32001, Msg("OPENAI_API_KEY is not configured")))
        ELSE IF in.params = "null"
        THEN McpCatch(s, Msg("TypeError: cannot destructure null"))
        ELSE IF unknownTool(name)
        THEN Respond(s, jsonRpcError(id, -32601, Msg("Unknown tool")))
        ELSE IF args = "null"
        THEN McpCatch(s, Msg("TypeError: cannot read properties of null"))
        ELSE IF queryInvalid(query)
        THEN Respond(s, jsonRpcError(id, -32602, Msg("Missing required argument: query")))
        ELSE getOrCreateVectorStore(s, file)

mcpHandler(s, file, hasKey) ==
    LET in == s.in
        id == DefaultTo(in.id, "null")
    IN  IF Truthy(in.jsonrpc) /\ in.jsonrpc # JSONRPC_VERSION
        THEN Respond(s, jsonRpcError(id, -32600, Msg("Invalid JSON-RPC version")))
        ELSE IF methodMissing(in.method)
        THEN Respond(s, jsonRpcError(id, -32600, Msg("Invalid request: missing method")))
        ELSE IF in.method = "initialize"
        THEN initialize(s, file)
        ELSE IF in.method \in StaticMethods
        THEN Respond(s, jsonRpcResult(id, "static", in.method))
        ELSE IF in.method = "tools/call"
        THEN toolsCall(s, file, hasKey)
        ELSE unknownMethod(s)

\* The route POST /mcp: authenticate, then the handler.
mcpRoute(s, file, allowNoAuth, hasKey) ==
    LET gate == authenticate(allowNoAuth, s.in.authorization)
    IN  IF gate.sent = 1 THEN Respond(s, gate) ELSE mcpHandler(s, file, hasKey)

\* The route POST /sse (server.js:487-491): authenticate, then the request is
\* handed to the router again with url '/mcp'.
sseRoute_SkipsRouter(s, file, allowNoAuth, hasKey) == mcpHandler(s, file, hasKey)

sseRoute(s, file, allowNoAuth, hasKey) ==
    LET gate == authenticate(allowNoAuth, s.in.authorization)
    IN  IF gate.sent = 1 THEN Respond(s, gate)
        ELSE mcpRoute(s, file, allowNoAuth, hasKey)

(***************************************************************************)
(* POST /ingest (server.js:187-256), up to its first await                 *)
(***************************************************************************)
ingestHandler(s, hasKey) ==
    IF ~s.in.hasFile
    THEN Respond(s, HttpError("ingest", 400, Msg("No file uploaded")))
    ELSE IF ~hasKey
    THEN Respond(s, HttpError("ingest", 500, Msg("OPENAI_API_KEY is not configured")))
    ELSE [s EXCEPT !.pc = "upload", !.calls = Append(@, "upload")]

ingestRoute(s, allowNoAuth, hasKey) ==
    LET gate == authenticate(allowNoAuth, s.in.authorization)
    IN  IF gate.sent = 1 THEN Respond(s, gate) ELSE ingestHandler(s, hasKey)

(***************************************************************************)
(* GET /sse (server.js:467-484)                                            *)
(***************************************************************************)
\* An event stream: state is "none" (no exchange), "open" (headers written,
\* client connected) or "closed" (the request emitted 'close'); pingInterval
\* is TRUE while the interval timer is set; pings counts the ping events
\* written to res; elapsed counts the 30000 ms periods that have passed since
\* the stream was opened.
NoStream == [state |-> "none", pingInterval |-> FALSE, pings |-> 0, elapsed |-> 0]

\* The handler: res.writeHead and setInterval (server.js:468-479).
sseHandler == [state |-> "open", pingInterval |-> TRUE, pings |-> 0, elapsed |-> 0]

\* The interval callback (server.js:477-479): one ping is written.
pingCallback(stream) == [stream EXCEPT !.pings = @ + 1]

\* req.on('close') (server.js:481-483): clearInterval(pingInterval).
sseClose_KeepsInterval(stream) == [stream EXCEPT !.state = "closed"]

sseClose(stream) == [stream EXCEPT !.state = "closed", !.pingInterval = FALSE]

(***************************************************************************)
(* Continuations: what a handler does when its pending fetch settles       *)
(***************************************************************************)
\* saveVectorStore (server.js:80-86): a failed write is logged and swallowed.
saveVectorStore_KeepsFirst(file, storeData, writeOk) ==
    IF writeOk /\ file.tag # "record" THEN FileRecord(storeData.id) ELSE file

saveVectorStore(file, storeData, writeOk) ==
    IF writeOk THEN FileRecord(storeData.id) ELSE file

\* errorText.includes("Unknown parameter: 'attachments'") (server.js:394)
shouldFallback_Always(errorText) == TRUE

shouldFallback(errorText) == Includes(errorText, UnknownAttachments)

\* createVectorStore after its fetch settles (server.js:106-116), given the id
\* the upstream assigned: the handler, the file and whether a store was made.
\* On success the store is saved and getOrCreateVectorStore returns it to the
\* caller, which issues its next fetch; on failure the error is rethrown.
createVectorStore_FailsOnWriteError(s, file, o, id, writeOk) ==
    IF o.kind = "ok" /\ writeOk
    THEN [req |-> [Settled(s, o) EXCEPT
                            !.pc = NextFetch(s), !.vectorStore = Handle(id),
                            !.fileWrites = @ + 1,
                            !.calls = Append(@, NextFetch(s))],
          file |-> saveVectorStore(file, Handle(id), writeOk),
          created |-> TRUE]
    ELSE [req |-> Catch(Settled(s, o),
                        FailureMessage("HTTP error! status: ${response.status}", o)),
          file |-> file,
          created |-> o.kind = "ok"]

createVectorStore_NoOkCheck(s, file, o, id, writeOk) ==
    LET storeId == IF o.kind = "ok" THEN id ELSE 0
    IN  [req |-> [Settled(s, o) EXCEPT
                           !.pc = NextFetch(s), !.vectorStore = Handle(storeId),
                           !.fileWrites = @ + 1, !.calls = Append(@, NextFetch(s))],
         file |-> saveVectorStore(file, Handle(storeId), writeOk),
         created |-> TRUE]

createVectorStore(s, file, o, id, writeOk) ==
    IF o.kind = "ok"
    THEN [req |-> [Settled(s, o) EXCEPT
                            !.pc = NextFetch(s), !.vectorStore = Handle(id),
                            !.fileWrites = @ + 1,
                            !.calls = Append(@, NextFetch(s))],
          file |-> saveVectorStore(file, Handle(id), writeOk),
          created |-> TRUE]
    ELSE [req |-> Catch(Settled(s, o),
                        FailureMessage("HTTP error! status: ${response.status}", o)),
          file |-> file,
          created |-> FALSE]

\* The first search call settles (server.js:380-456).
searchResponse(s, o) ==
    LET id == DefaultTo(s.in.id, "null")
        t == [Settled(s, o) EXCEPT !.respA = o]
    IN  IF o.kind = "network_error" THEN McpCatch(t, Msg("fetch failed"))
        ELSE IF o.kind = "http_error"
        THEN IF shouldFallback(o.text)
             THEN [t EXCEPT !.pc = "searchB", !.calls = Append(@, "searchB")]
             ELSE McpCatch(t, MsgStatusText(
                        "OpenAI API error: ${response.status} - ${errorText}",
                        o.status, o.text))
        ELSE IF o.kind = "ok_not_json"
        THEN McpCatch(t, Msg("SyntaxError: unexpected token in JSON"))
        ELSE Respond(t, toolResult(id, "result", parseSearchResults(o.body)))

\* The fallback search call settles (server.js:418-433).
fallbackResponse(s, o) ==
    LET id == DefaultTo(s.in.id, "null")
        t == [Settled(s, o) EXCEPT !.respB = o]
    IN  IF o.kind = "network_error" THEN McpCatch(t, Msg("fetch failed"))
        ELSE IF o.kind = "http_error"
        THEN McpCatch(t, MsgStatus(
                    "Fallback request failed: ${fallbackResponse.status}", o.status))
        ELSE IF o.kind = "ok_not_json"
        THEN McpCatch(t, Msg("SyntaxError: unexpected token in JSON"))
        ELSE Respond(t, toolResult(id, "fallbackResult", parseSearchResults(o.body)))

\* The file-attach call settles (server.js:237-250).
attachResponse(s, o) ==
    IF o.kind # "ok"
    THEN IngestCatch(Settled(s, o), FailureMessage(
                "File attachment failed: ${attachResponse.status}", o))
    ELSE Respond(Settled(s, o), [NoRes EXCEPT !.sent = 1, !.by = "ingest", !.status = 200,
                        !.keys = {"success", "fileId", "vectorStoreId",
                                  "attachmentId", "filename"},
                        !.vectorStoreId = s.vectorStore.id])

\* The record of one return of getOrCreateVectorStore.
GocEntry(s, creates) == [h |-> s.vectorStore, creates |-> creates, existed |-> s.existed]

Push(log, e) == IF Len(log) < 2 THEN Append(log, e) ELSE <<log[2], e>>

\* The log after a run in which getOrCreateVectorStore loaded the file: it
\* returned iff the handler went on to its next fetch.
LogAfterLoad(t) ==
    IF t.pc \in {"searchA", "attach"} THEN Push(gocLog, GocEntry(t, 0)) ELSE gocLog

(***************************************************************************)
(* Actions                                                                 *)
(***************************************************************************)
\* The persisted state at start-up, and the id the upstream will give next.
InitStore ==
    \/ vectorStoreFile \in {FileAbsent, FileCorrupt, FileRecord(0)} /\ nextStoreId = 1
    \/ vectorStoreFile = FileRecord(1) /\ nextStoreId = 2

\* Start-up with the gate enabled and the credential configured.
Init ==
    /\ ALLOW_NO_AUTH = FALSE
    /\ OPENAI_API_KEY = TRUE
    /\ InitStore
    /\ reqs = [r \in Requests |-> Idle]
    /\ gocLog = <<>>
    /\ streams = [k \in Streams |-> NoStream]
    /\ lastSaved = 0

\* Start-up under every configuration.
InitDispatch ==
    /\ ALLOW_NO_AUTH \in BOOLEAN
    /\ OPENAI_API_KEY \in BOOLEAN
    /\ InitStore
    /\ reqs = [r \in Requests |-> Idle]
    /\ gocLog = <<>>
    /\ streams = [k \in Streams |-> NoStream]
    /\ lastSaved = 0

Config == <<ALLOW_NO_AUTH, OPENAI_API_KEY>>

\* A request arrives at POST /mcp.
PostMcp(r, in) ==
    /\ reqs[r].pc = "idle"
    /\ LET t == mcpRoute(Arrived(in), vectorStoreFile, ALLOW_NO_AUTH, OPENAI_API_KEY)
       IN  /\ reqs' = [reqs EXCEPT ![r] = t]
           /\ gocLog' = LogAfterLoad(t)
    /\ UNCHANGED <<Config, streams, lastSaved, vectorStoreFile, nextStoreId>>

\* A request arrives at POST /sse.
PostSse(r, in) ==
    /\ reqs[r].pc = "idle"
    /\ LET t == sseRoute(Arrived(in), vectorStoreFile, ALLOW_NO_AUTH, OPENAI_API_KEY)
       IN  /\ reqs' = [reqs EXCEPT ![r] = t]
           /\ gocLog' = LogAfterLoad(t)
    /\ UNCHANGED <<Config, streams, lastSaved, vectorStoreFile, nextStoreId>>

\* A request arrives at POST /ingest.
PostIngest(r, in) ==
    /\ reqs[r].pc = "idle"
    /\ reqs' = [reqs EXCEPT ![r] = ingestRoute(Arrived(in), ALLOW_NO_AUTH, OPENAI_API_KEY)]
    /\ UNCHANGED <<Config, streams, lastSaved, vectorStoreFile, nextStoreId, gocLog>>

\* The file-upload call settles (server.js:214-222).
UploadResponse(r, o) ==
    /\ reqs[r].pc = "upload"
    /\ LET t == IF o.kind # "ok"
                THEN IngestCatch(Settled(reqs[r], o), FailureMessage(
                        "File upload failed: ${uploadResponse.status}", o))
                ELSE getOrCreateVectorStore(Settled(reqs[r], o), vectorStoreFile)
       IN  /\ reqs' = [reqs EXCEPT ![r] = t]
           /\ gocLog' = LogAfterLoad(t)
    /\ UNCHANGED <<Config, streams, lastSaved, vectorStoreFile, nextStoreId>>

\* The creation call settles.
CreateVectorStoreResponse(r, o, writeOk) ==
    /\ reqs[r].pc = "createVectorStore"
    /\ o.kind = "ok" => nextStoreId <= MaxStores
    /\ LET c == createVectorStore(reqs[r], vectorStoreFile, o, nextStoreId, writeOk)
       IN  /\ reqs' = [reqs EXCEPT ![r] = c.req]
           /\ vectorStoreFile' = c.file
           /\ nextStoreId' = IF o.kind = "ok" THEN nextStoreId + 1 ELSE nextStoreId
           /\ gocLog' = IF c.created THEN Push(gocLog, GocEntry(c.req, 1)) ELSE gocLog
           /\ lastSaved' = IF c.created /\ writeOk THEN nextStoreId ELSE lastSaved
    /\ UNCHANGED <<Config, streams>>

SearchResponse(r, o) ==
    /\ reqs[r].pc = "searchA"
    /\ reqs' = [reqs EXCEPT ![r] = searchResponse(reqs[r], o)]
    /\ UNCHANGED <<Config, streams, lastSaved, vectorStoreFile, nextStoreId, gocLog>>

FallbackResponse(r, o) ==
    /\ reqs[r].pc = "searchB"
    /\ reqs' = [reqs EXCEPT ![r] = fallbackResponse(reqs[r], o)]
    /\ UNCHANGED <<Config, streams, lastSaved, vectorStoreFile, nextStoreId, gocLog>>

AttachResponse(r, o) ==
    /\ reqs[r].pc = "attach"
    /\ reqs' = [reqs EXCEPT ![r] = attachResponse(reqs[r], o)]
    /\ UNCHANGED <<Config, streams, lastSaved, vectorStoreFile, nextStoreId, gocLog>>

\* The exchange is over; the slot is free for the next request.
Release(r) ==
    /\ reqs[r].pc = "done"
    /\ reqs' = [reqs EXCEPT ![r] = Idle]
    /\ UNCHANGED <<Config, streams, lastSaved, vectorStoreFile, nextStoreId, gocLog>>

\* A client opens an event stream with GET /sse; the route has no gate.
GetSse(k) ==
    /\ streams[k].state = "none"
    /\ streams' = [streams EXCEPT ![k] = sseHandler]
    /\ UNCHANGED <<Config, vectorStoreFile, nextStoreId, reqs, gocLog, lastSaved>>

\* One heartbeat period passes on stream k: a timer that is set fires.
HeartbeatPeriod(k) ==
    /\ streams[k].state # "none"
    /\ streams[k].elapsed < MaxPeriods
    /\ LET stream == [streams[k] EXCEPT !.elapsed = @ + 1]
       IN  streams' = [streams EXCEPT ![k] =
                          IF stream.pingInterval THEN pingCallback(stream)
                          ELSE stream]
    /\ UNCHANGED <<Config, vectorStoreFile, nextStoreId, reqs, gocLog, lastSaved>>

\* The client of stream k disconnects.
ClientDisconnect(k) ==
    /\ streams[k].state = "open"
    /\ streams' = [streams EXCEPT ![k] = sseClose(streams[k])]
    /\ UNCHANGED <<Config, vectorStoreFile, nextStoreId, reqs, gocLog, lastSaved>>

\* The server under concurrent requests that reach provisioning.
Next ==
    \E r \in Requests :
        \/ \E in \in CoreJsonInputs : PostMcp(r, in)
        \/ \E in \in CoreIngestInputs : PostIngest(r, in)
        \/ \E o \in CoreApiOutcomes : UploadResponse(r, o)
        \/ \E o \in CoreApiOutcomes, w \in BOOLEAN : CreateVectorStoreResponse(r, o, w)
        \/ \E o \in CoreSearchOutcomes : SearchResponse(r, o)
        \/ \E o \in CoreSearchOutcomes : FallbackResponse(r, o)
        \/ \E o \in CoreApiOutcomes : AttachResponse(r, o)
        \/ Release(r)

Spec == Init /\ [][Next]_vars

\* The server handling one request at a time, over every request shape and
\* every outcome of the outbound calls.
NextDispatch ==
    \/ \E in \in JsonInputs("/mcp") : PostMcp(1, in)
    \/ \E in \in JsonInputs("/sse") : PostSse(1, in)
    \/ \E in \in IngestInputs : PostIngest(1, in)
    \/ \E o \in ApiOutcomes : UploadResponse(1, o)
    \/ \E o \in ApiOutcomes, w \in BOOLEAN : CreateVectorStoreResponse(1, o, w)
    \/ \E o \in SearchOutcomes : SearchResponse(1, o)
    \/ \E o \in SearchOutcomes : FallbackResponse(1, o)
    \/ \E o \in ApiOutcomes : AttachResponse(1, o)
    \/ Release(1)

SpecDispatch == InitDispatch /\ [][NextDispatch]_vars

\* Every outbound call completes or fails: the continuation of a fetch that is
\* awaited runs at some point, with one of its outcomes.
FetchesSettle ==
    /\ WF_vars(\E o \in ApiOutcomes : UploadResponse(1, o))
    /\ WF_vars(\E o \in ApiOutcomes, w \in BOOLEAN : CreateVectorStoreResponse(1, o, w))
    /\ WF_vars(\E o \in SearchOutcomes : SearchResponse(1, o))
    /\ WF_vars(\E o \in SearchOutcomes : FallbackResponse(1, o))
    /\ WF_vars(\E o \in ApiOutcomes : AttachResponse(1, o))

SpecSettle == SpecDispatch /\ FetchesSettle

\* Start-up with a persisted store, the gate enabled and the credential
\* configured.
InitParse ==
    /\ ALLOW_NO_AUTH = FALSE
    /\ OPENAI_API_KEY = TRUE
    /\ vectorStoreFile = FileRecord(1) /\ nextStoreId = 2
    /\ reqs = [r \in Requests |-> Idle]
    /\ gocLog = <<>>
    /\ streams = [k \in Streams |-> NoStream]
    /\ lastSaved = 0

\* The server answering search calls one at a time, over every output text.
NextParse ==
    \/ PostMcp(1, SearchCall)
    \/ reqs[1].pc = "searchA" /\ \E o \in ParseOutcomes : SearchResponse(1, o)
    \/ reqs[1].pc = "searchB" /\ \E o \in ParseOutcomes : FallbackResponse(1, o)
    \/ Release(1)

SpecParse == InitParse /\ [][NextParse]_vars

\* The event streams alone: clients connect, time passes, clients leave.
NextSse ==
    \E k \in Streams :
        \/ GetSse(k)
        \/ HeartbeatPeriod(k)
        \/ ClientDisconnect(k)

SpecSse == Init /\ [][NextSse]_vars

(***************************************************************************)
(* Vocabulary of the properties                                            *)
(***************************************************************************)
IsSearch(c) == c \in {"searchA", "searchB"}

\* The outbound search calls a handler has issued, in order.
SearchAttempts(s) == SelectSeq(s.calls, IsSearch)

\* The request passed the gate and the /mcp dispatcher has answered it.
Answered(s) == s.pc = "done" /\ s.res.by = "mcp"

HasResult(s) == "result" \in s.res.keys
HasError(s) == "error" \in s.res.keys

Failed(o) == o.kind \in {"http_error", "network_error"}

\* The rejection the fallback is keyed on: an HTTP error whose text holds
\* "Unknown parameter: 'attachments'".
IsAttachmentsRejection(o) ==
    o.kind = "http_error" /\ Includes(o.text, UnknownAttachments)

\* The request is a tools/call naming the search tool.
IsSearchToolCall(in) ==
    in.method = "tools/call" /\ in.params = "object" /\ in.name = "search_zoning"

\* arguments.query is absent or empty.
QueryMissing(in) == in.arguments # "object" \/ in.query \in {"undefined", ""}

\* The version check of the dispatcher lets the request through.
VersionAccepted(in) == in.jsonrpc \in {"undefined", "", JSONRPC_VERSION}

(***************************************************************************)
(* C1                                                                      *)
(***************************************************************************)
\* C1: when the persisted state already held a store record at the first of
\* two getOrCreateVectorStore calls made one after the other, both calls
\* return the identical handle, the handle is the persisted one, and neither
\* call issues a creation call.
C1_IdempotentProvisioning ==
    (Len(gocLog) = 2 /\ gocLog[1].existed) =>
        /\ gocLog[2].h = gocLog[1].h
        /\ gocLog[2].h = Handle(vectorStoreFile.id)
        /\ gocLog[1].creates = 0
        /\ gocLog[2].creates = 0

\* Two calls in sequence over an existing record have both returned store 1.
C1_Witness ==
    /\ Len(gocLog) = 2
    /\ gocLog[1].existed /\ gocLog[2].existed
    /\ gocLog[1].h = Handle(1) /\ gocLog[2].h = Handle(1)
    /\ reqs[1].pc = "searchA" /\ reqs[1].calls = <<"searchA">>

(***************************************************************************)
(* C2                                                                      *)
(***************************************************************************)
\* C2: for a search call whose first attempt (shape A) the upstream rejects
\* with an "unknown parameter" error, and whose shape B the upstream does not
\* reject, the answer is a result, exactly two search attempts were made (A,
\* then B), and the result is built from shape B's response.
C2_FallbackCorrectness ==
    \A r \in Requests :
        LET s == reqs[r] IN
        (/\ Answered(s)
         /\ s.respA.kind = "http_error"
         /\ IsUnknownParameterText(s.respA.text)
         /\ ~Failed(s.respB))
        => /\ HasResult(s)
           /\ SearchAttempts(s) = <<"searchA", "searchB">>
           /\ s.res.from = "fallbackResult"
           /\ s.res.content = parseSearchResults(s.respB.body)

(***************************************************************************)
(* C3                                                                      *)
(***************************************************************************)
\* C3: a handler never issues more than two search calls; when shape A fails
\* and the failure is not the rejection the fallback is keyed on, the answer is
\* an error after exactly one attempt; when shape B fails, the answer is an
\* error after exactly two attempts; the handler is then done.
C3_BoundedRetry ==
    \A r \in Requests :
        LET s == reqs[r] IN
        /\ Len(SearchAttempts(s)) <= 2
        /\ (Failed(s.respA) /\ ~IsAttachmentsRejection(s.respA)) =>
              /\ Answered(s) /\ HasError(s) /\ ~HasResult(s)
              /\ SearchAttempts(s) = <<"searchA">>
        /\ Failed(s.respB) =>
              /\ Answered(s) /\ HasError(s) /\ ~HasResult(s)
              /\ SearchAttempts(s) = <<"searchA", "searchB">>

\* Both cases at once is impossible in one slot; the witness is the second:
\* shape B failed after the rejection of shape A (a status-500 one).
C3_Witness ==
    \E r \in Requests :
        /\ reqs[r].pc = "done"
        /\ IsAttachmentsRejection(reqs[r].respA)
        /\ reqs[r].respB.kind = "http_error"
        /\ reqs[r].res.code = -32000
        /\ Len(SearchAttempts(reqs[r])) = 2

(***************************************************************************)
(* C4                                                                      *)
(***************************************************************************)
\* C4: with authentication enabled, a request to POST /ingest, POST /mcp or
\* POST /sse whose Authorization header is missing, not a bearer token or a
\* wrong bearer token is answered 401 by the gate, and the handler has neither
\* read nor written the persisted state nor issued an outbound call.
C4_AuthGate ==
    \A r \in Requests :
        LET s == reqs[r] IN
        (/\ s.pc # "idle"
         /\ ~ALLOW_NO_AUTH
         /\ s.in.endpoint \in {"/ingest", "/mcp", "/sse"}
         /\ s.in.authorization # GoodBearer)
        => /\ s.pc = "done"
           /\ s.res.status = 401
           /\ s.res.by = "authenticate"
           /\ s.fileReads = 0 /\ s.fileWrites = 0
           /\ s.calls = <<>>

\* A search call with a wrong bearer token was stopped at POST /sse while the
\* credential is configured and a store record is persisted.
C4_Witness ==
    /\ ~ALLOW_NO_AUTH /\ OPENAI_API_KEY
    /\ vectorStoreFile.tag = "record"
    /\ reqs[1].pc = "done"
    /\ reqs[1].in.endpoint = "/sse"
    /\ reqs[1].in.authorization = WrongBearer
    /\ reqs[1].res.status = 401

(***************************************************************************)
(* C5                                                                      *)
(***************************************************************************)
\* C5: every response of the /mcp dispatcher carries the id of its request
\* (null when the request has none) and exactly one of `result` and `error`,
\* and is the only response to the request.
C5_Envelope ==
    \A r \in Requests :
        LET s == reqs[r] IN
        (s.res.by = "mcp") =>
            /\ s.res.sent = 1
            /\ s.res.id = (IF s.in.id = "undefined" THEN "null" ELSE s.in.id)
            /\ Cardinality(s.res.keys \cap {"result", "error"}) = 1

\* An error after a failed fallback call, for a request whose id is 0.
C5_Witness ==
    \E r \in Requests :
        /\ Answered(reqs[r])
        /\ reqs[r].in.id = "num0" /\ reqs[r].res.id = "num0"
        /\ HasError(reqs[r])
        /\ Failed(reqs[r].respB)

(***************************************************************************)
(* C6                                                                      *)
(***************************************************************************)
\* The request passed the gate.
PassedGate(s) == s.pc # "idle" /\ s.res.by # "authenticate"

UnrecognizedMethods == {"foo/bar", "resources/read"}

\* C7 as claimed: a request whose method is not a recognized one is answered
\* with error -32601 carrying the request's id, and no outbound call is made.
C7_UnknownMethod_Original ==
    \A r \in Requests :
        LET s == reqs[r] IN
        (PassedGate(s) /\ s.in.method \in UnrecognizedMethods)
        => /\ s.pc = "done"
           /\ s.res.code = -32601
           /\ s.res.id = NullishCoalesce(s.in.id, "null")
           /\ s.calls = <<>>

\* C7 amended: such a request is answered with an error carrying the request's
\* id and no outbound call is made; the code is -32601 when the version tag is
\* absent, falsy or "2.0", and -32600 when the version tag is rejected.
C7_UnknownMethod ==
    \A r \in Requests :
        LET s == reqs[r] IN
        (PassedGate(s) /\ s.in.method \in UnrecognizedMethods)
        => /\ s.pc = "done"
           /\ HasError(s) /\ ~HasResult(s)
           /\ s.res.code = (IF VersionAccepted(s.in) THEN -32601 ELSE -32600)
           /\ s.res.id = NullishCoalesce(s.in.id, "null")
           /\ s.calls = <<>>
           /\ s.fileReads = 0

\* foo/bar with id 7 was answered -32601 with id 7.
C7_Witness ==
    \E r \in Requests :
        /\ Answered(reqs[r])
        /\ reqs[r].in.method = "foo/bar"
        /\ reqs[r].in.id = "num7" /\ reqs[r].res.id = "num7"
        /\ reqs[r].res.code = -32601

(***************************************************************************)
(* C8                                                                      *)
(***************************************************************************)
\* The handler's provisioning failed: its last outbound call is the creation
\* call and the response is sent.
ProvisioningFailed(s) ==
    s.pc = "done" /\ Len(s.calls) > 0 /\ s.calls[Len(s.calls)] = "createVectorStore"

\* A step changes the persisted state only when a pending creation call has
\* succeeded (the upstream made the store numbered nextStoreId), and what it
\* writes is the record of that store, returned to the same handler.
WriteFollowsCreation ==
    (vectorStoreFile' # vectorStoreFile) =>
        \E r \in Requests :
            /\ reqs[r].pc = "createVectorStore"
            /\ nextStoreId' = nextStoreId + 1
            /\ vectorStoreFile' = FileRecord(nextStoreId)
            /\ reqs'[r].vectorStore = Handle(nextStoreId)
            /\ reqs'[r].fileWrites = reqs[r].fileWrites + 1

\* The step in which a handler's provisioning fails leaves the persisted state
\* as it is.
FailureWritesNothing ==
    \A r \in Requests :
        (~ProvisioningFailed(reqs[r]) /\ ProvisioningFailed(reqs'[r]))
        => vectorStoreFile' = vectorStoreFile

\* C8: the persisted state is written only after a creation call succeeded; a
\* request whose provisioning fails is answered with an error, has written
\* nothing, and the step of its failure leaves the persisted state unchanged.
C8_WriteOnlyAfterCreation ==
    /\ [](\A r \in Requests :
            ProvisioningFailed(reqs[r]) =>
                /\ HasError(reqs[r]) /\ ~HasResult(reqs[r])
                /\ reqs[r].res.status \in {200, 500}
                /\ reqs[r].res.keys \cap {"success", "result"} = {}
                /\ reqs[r].fileWrites = 0)
    /\ [][WriteFollowsCreation /\ FailureWritesNothing]_vars

\* A search call and an ingest have both failed at provisioning and the
\* persisted state is still absent.
C8_Witness ==
    /\ vectorStoreFile = FileAbsent
    /\ ProvisioningFailed(reqs[1]) /\ reqs[1].in.endpoint = "/mcp"
    /\ reqs[1].res.code = -32000
    /\ ProvisioningFailed(reqs[2]) /\ reqs[2].in.endpoint = "/ingest"
    /\ reqs[2].res.status = 500

(***************************************************************************)
(* C9                                                                      *)
(***************************************************************************)
\* getOrCreateVectorStore returns to handler r in this step.
GocReturns(r) ==
    /\ reqs[r].pc \notin {"searchA", "attach"}
    /\ reqs'[r].pc \in {"searchA", "attach"}

CreationInFlight == \E r \in Requests : reqs[r].pc = "createVectorStore"

\* C9 as claimed: once a store record is persisted it never changes, and every
\* getOrCreateVectorStore that returns afterwards returns the persisted handle.
C9_SingleHandle_Original ==
    [][(vectorStoreFile.tag = "record") =>
          /\ vectorStoreFile' = vectorStoreFile
          /\ \A r \in Requests :
                GocReturns(r) => reqs'[r].vectorStore = Handle(vectorStoreFile.id)]_vars

\* C9 amended: once a store record is persisted, (a) every getOrCreateVectorStore
\* call that starts afterwards returns that record at once, without a creation
\* call and without writing; (b) the record changes only by the save of a
\* creation call that was already in flight, so while no creation call is in
\* flight it does not change and every return is the persisted handle.
C9_SingleHandle ==
    [][(vectorStoreFile.tag = "record") =>
          /\ \A r \in Requests :
                (reqs'[r].fileReads = reqs[r].fileReads + 1) =>
                    /\ GocReturns(r)
                    /\ reqs'[r].vectorStore = Handle(vectorStoreFile.id)
                    /\ reqs'[r].fileWrites = reqs[r].fileWrites
                    /\ "createVectorStore" \notin
                          {reqs'[r].calls[i] : i \in 1..Len(reqs'[r].calls)}
                    /\ vectorStoreFile' = vectorStoreFile
          /\ ~CreationInFlight =>
                /\ vectorStoreFile' = vectorStoreFile
                /\ \A r \in Requests :
                      GocReturns(r) => reqs'[r].vectorStore = Handle(vectorStoreFile.id)]_vars

\* Store 1 was created and persisted by one handler, and the next call, made
\* by an ingest, was given store 1 without a creation call.
C9_Witness ==
    /\ vectorStoreFile = FileRecord(1)
    /\ gocLog = <<[h |-> Handle(1), creates |-> 1, existed |-> FALSE],
                  [h |-> Handle(1), creates |-> 0, existed |-> TRUE]>>
    /\ reqs[2].pc = "attach"
    /\ reqs[2].vectorStore = Handle(1)
    /\ reqs[2].calls = <<"upload", "attach">>

(***************************************************************************)
(* C10                                                                     *)
(***************************************************************************)
\* C10 as claimed: once an initialize request is answered with a result, the
\* persisted state holds a store record.
C10_InitializeProvisions_Original ==
    \A r \in Requests :
        (Answered(reqs[r]) /\ reqs[r].in.method = "initialize" /\ HasResult(reqs[r]))
        => vectorStoreFile.tag = "record"

\* C10 amended: an initialize request with an accepted version tag is always
\* answered with a result, without reading or writing the persisted state and
\* without an outbound call; with a rejected version tag it is answered with
\* error -32600.  Initialize provisions nothing.
C10_InitializeStatic ==
    \A r \in Requests :
        LET s == reqs[r] IN
        (PassedGate(s) /\ s.in.method = "initialize")
        => /\ s.pc = "done"
           /\ s.fileReads = 0 /\ s.fileWrites = 0
           /\ s.calls = <<>>
           /\ IF VersionAccepted(s.in)
              THEN HasResult(s) /\ ~HasError(s) /\ s.res.output = "initialize"
              ELSE HasError(s) /\ ~HasResult(s) /\ s.res.code = -32600

\* Initialize was answered with a result while no store record is persisted
\* and the credential is configured.
C10_Witness ==
    \E r \in Requests :
        /\ OPENAI_API_KEY
        /\ vectorStoreFile = FileAbsent
        /\ Answered(reqs[r])
        /\ reqs[r].in.method = "initialize"
        /\ HasResult(reqs[r])

(***************************************************************************)
(* C11                                                                     *)
(***************************************************************************)
\* C11: a JSON-RPC request without a method is answered with error -32600, a code
\* other than the -32601 an unknown method gets, without reading the
\* persisted state and without an outbound call.
C11_MissingMethod ==
    \A r \in Requests :
        LET s == reqs[r] IN
        (PassedGate(s) /\ s.in.endpoint \in {"/mcp", "/sse"} /\ s.in.method = "undefined")
        => /\ s.pc = "done"
           /\ HasError(s) /\ ~HasResult(s)
           /\ s.res.code = -32600
           /\ s.res.code # unknownMethod(s).res.code
           /\ s.calls = <<>>
           /\ s.fileReads = 0

\* A request with the accepted version tag, id 7 and no method was answered
\* -32600 "missing method".
C11_Witness ==
    \E r \in Requests :
        /\ Answered(reqs[r])
        /\ reqs[r].in.method = "undefined"
        /\ reqs[r].in.jsonrpc = JSONRPC_VERSION
        /\ reqs[r].in.id = "num7"
        /\ reqs[r].res.code = -32600
        /\ reqs[r].res.message = Msg("Invalid request: missing method")

(***************************************************************************)
(* C12                                                                     *)
(***************************************************************************)
\* The request is a tools/call that does not name the search tool: params is
\* absent or null, or an object whose name is absent or another tool's.
NamesOtherTool(in) ==
    /\ in.method = "tools/call"
    /\ ~(in.params = "object" /\ in.name = "search_zoning")

CarriesUpstreamDetail(message, o) ==
    message.status = o.status /\ message.text = o.text

\* C13: when a search call fails on an upstream HTTP error (shape A with an
\* error the fallback is not keyed on, or shape B), the error answered to the
\* caller carries the status code and the error text of the failed attempt.
C13_UpstreamDetail ==
    \A r \in Requests :
        LET s == reqs[r] IN
        /\ (s.respA.kind = "http_error" /\ ~IsAttachmentsRejection(s.respA)) =>
              /\ Answered(s) /\ HasError(s)
              /\ CarriesUpstreamDetail(s.res.message, s.respA)
        /\ (s.respB.kind = "http_error") =>
              /\ Answered(s) /\ HasError(s)
              /\ CarriesUpstreamDetail(s.res.message, s.respB)

(***************************************************************************)
(* C14                                                                     *)
(***************************************************************************)
\* The outcome whose output the answer is built from: the fallback's when the
\* fallback was made, else the first call's.
Decisive(s) == IF s.respB.kind # "none" THEN s.respB ELSE s.respA

\* The search of handler s succeeded, directly or via the fallback.
SearchSucceeded(s) == Decisive(s).kind = "ok"

\* C14: a search call whose outbound search succeeded (directly or via the
\* fallback) is answered with a result and never with an error, whatever the
\* output text is, also when the extraction finds no citation in it.
C14_ParsingDegradation ==
    \A r \in Requests :
        LET s == reqs[r] IN
        SearchSucceeded(s) =>
            /\ Answered(s)
            /\ HasResult(s) /\ ~HasError(s)
            /\ s.res.content = parseSearchResults(Decisive(s).body)

\* A search that succeeded via the fallback with the text "no useful
\* information found" was answered with a result holding no citation.
C14_Witness ==
    \E r \in Requests :
        /\ Answered(reqs[r]) /\ HasResult(reqs[r])
        /\ IsAttachmentsRejection(reqs[r].respA)
        /\ reqs[r].respB = Ok(NoCitationText)
        /\ reqs[r].res.content.total_found = 0

(***************************************************************************)
(* C15                                                                     *)
(***************************************************************************)
\* The citations of the answer of handler s.
CitationsOf(s) == {s.res.content.results[i] : i \in 1..Len(s.res.content.results)}

\* C15: every citation of an answer has a filename and at least one of a
\* section and a snippet.
C15_CitationInvariant ==
    \A r \in Requests :
        \A c \in CitationsOf(reqs[r]) :
            /\ c.filename # <<>>
            /\ c.section # <<>> \/ c.snippet # <<>>

(***************************************************************************)
(* C16                                                                     *)
(***************************************************************************)
\* C16: for the output "Source: zoning.pdf" / "Section 4.2 Setbacks" /
\* "Minimum setback is 10 feet." the answer holds exactly one citation, with
\* filename "zoning.pdf", that section and that snippet.
C16_LineScan ==
    \A r \in Requests :
        LET s == reqs[r] IN
        (SearchSucceeded(s) /\ Decisive(s).body = LineScanText /\ s.pc = "done")
        => s.res.content.results =
              <<[filename |-> <<"zoning.pdf">>, section |-> SectionLine,
                 snippet |-> SnippetLine]>>

(***************************************************************************)
(* C17                                                                     *)
(***************************************************************************)
\* C17: for an output that is a fenced JSON array holding the object
\* {"file":"a.pdf","page":"3","text":"setback 10ft"}, the answer holds exactly
\* that object with its aliases mapped: filename "a.pdf", section "3", snippet
\* "setback 10ft".
C17_FencedJson ==
    \A r \in Requests :
        LET s == reqs[r] IN
        (SearchSucceeded(s) /\ Decisive(s).body = FencedJsonText /\ s.pc = "done")
        => s.res.content.results =
              <<[filename |-> <<"a.pdf">>, section |-> <<"3">>,
                 snippet |-> <<"setback", "10ft">>]>>

(***************************************************************************)
(* C18                                                                     *)
(***************************************************************************)
\* No line of the text names a document.
NoFileLine(text) ==
    \A i \in 1..Len(text) : ~HoldsPdf(text[i]) /\ ~HoldsLabel(text[i])

\* C18 as claimed: the extraction never raises, and for a text that holds no
\* citation the answer is an empty citation list.
C18_NeverRaises_Original ==
    \A r \in Requests :
        LET s == reqs[r] IN
        SearchSucceeded(s) =>
            /\ Answered(s) /\ HasResult(s) /\ ~HasError(s)
            /\ NoFileLine(Decisive(s).body) => s.res.content = Structured(<<>>)

\* C18 amended: the extraction never raises, so every output text is answered
\* with a result; for a text in which no line names a document the answer
\* holds no citation list: it is the raw text itself, unchanged.  Any other
\* answer is either the raw text or a list of at least one citation.
C18_NeverRaises ==
    \A r \in Requests :
        LET s == reqs[r] IN
        SearchSucceeded(s) =>
            /\ Answered(s) /\ HasResult(s) /\ ~HasError(s)
            /\ NoFileLine(Decisive(s).body) => s.res.content = Raw(Decisive(s).body)
            /\ \/ s.res.content = Raw(Decisive(s).body)
               \/ s.res.content.structured /\ s.res.content.total_found > 0

\* "no useful information found" was answered with that text as the result.
C18_Witness ==
    \E r \in Requests :
        /\ Answered(reqs[r]) /\ HasResult(reqs[r])
        /\ reqs[r].respA = Ok(NoCitationText)
        /\ reqs[r].res.content = Raw(NoCitationText)

(***************************************************************************)
(* C19                                                                     *)
(***************************************************************************)
\* C19: while the client of an event stream is connected, a ping has been
\* written for every heartbeat period that has passed; once the client has
\* disconnected, the timer is cancelled and no further ping is written.
C19_HeartbeatStops ==
    /\ [](\A k \in Streams :
            /\ streams[k].state = "open" =>
                  streams[k].pingInterval /\ streams[k].pings = streams[k].elapsed
            /\ streams[k].state = "closed" => ~streams[k].pingInterval)
    /\ [][\A k \in Streams :
            streams[k].state = "closed" => streams'[k].pings = streams[k].pings]_vars

\* A client left after one ping and two more periods have passed without a
\* ping, while the other stream, still connected, has had its three pings.
C19_Witness ==
    /\ streams[1].state = "closed"
    /\ streams[1].pings = 1 /\ streams[1].elapsed = 3
    /\ streams[2].state = "open" /\ streams[2].pings = 3

(***************************************************************************)
(* C20                                                                     *)
(***************************************************************************)
\* The same handler state, had the request been posted to /mcp.
AsMcp(s) == [s EXCEPT !.in.endpoint = "/mcp"]

\* A step of the handling of a POST /sse request is the step POST /mcp takes
\* for the same request from the same state under the same outcome of the
\* pending call: the same handler state (response and outbound calls), the
\* same persisted state and the same store created.
AliasStep ==
    LET s == reqs[1]
        t == reqs'[1]
    IN  (t.in.endpoint = "/sse" /\ s.pc # "done") =>
            \/ /\ s.pc = "idle"
               /\ AsMcp(t) = mcpRoute(Arrived(AsMcp(t).in), vectorStoreFile,
                                      ALLOW_NO_AUTH, OPENAI_API_KEY)
               /\ vectorStoreFile' = vectorStoreFile
               /\ nextStoreId' = nextStoreId
            \/ /\ s.pc = "createVectorStore"
               /\ \E o \in ApiOutcomes, w \in BOOLEAN :
                     LET c == createVectorStore(AsMcp(s), vectorStoreFile, o,
                                                nextStoreId, w)
                     IN  /\ AsMcp(t) = c.req
                         /\ vectorStoreFile' = c.file
                         /\ nextStoreId' = nextStoreId + (IF c.created THEN 1 ELSE 0)
            \/ /\ s.pc = "searchA"
               /\ AsMcp(t) = searchResponse(AsMcp(s), t.respA)
               /\ vectorStoreFile' = vectorStoreFile
               /\ nextStoreId' = nextStoreId
            \/ /\ s.pc = "searchB"
               /\ AsMcp(t) = fallbackResponse(AsMcp(s), t.respB)
               /\ vectorStoreFile' = vectorStoreFile
               /\ nextStoreId' = nextStoreId

\* C20: POST /sse answers as POST /mcp does: for the same body, headers,
\* persisted state and upstream outcomes it gives the same response, issues
\* the same outbound calls and changes the persisted handle the same way.
C20_SseAlias == [][AliasStep]_vars

\* A search call posted to /sse created store 1, persisted it and was answered
\* with a result.
C20_Witness ==
    /\ reqs[1].in.endpoint = "/sse"
    /\ Answered(reqs[1]) /\ HasResult(reqs[1])
    /\ reqs[1].calls = <<"createVectorStore", "searchA">>
    /\ vectorStoreFile = FileRecord(1)

(***************************************************************************)
(* C21                                                                     *)
(***************************************************************************)
\* C21: a resources/read request without a uri, with an accepted version tag,
\* is answered with error -32602 and not with the -32601 of an unknown method.
C21_ResourcesRead ==
    \A r \in Requests :
        LET s == reqs[r] IN
        (PassedGate(s) /\ s.in.method = "resources/read" /\ VersionAccepted(s.in))
        => /\ s.pc = "done"
           /\ s.res.code = -32602
           /\ s.res.code # unknownMethod(s).res.code

(***************************************************************************)
(* C22                                                                     *)
(***************************************************************************)
\* status is in the 4xx class
IsClientError(status) == status >= 400 /\ status <= 499

\* C22: a second search call is issued only when the first failed with a 4xx
\* status and a text that reports an unknown parameter; after a failure with
\* another status no second search call is issued.
C22_FallbackOnlyOn4xx ==
    \A r \in Requests :
        LET s == reqs[r] IN
        /\ Len(SearchAttempts(s)) = 2 =>
              /\ s.respA.kind = "http_error"
              /\ IsClientError(s.respA.status)
              /\ IsUnknownParameterText(s.respA.text)
        /\ (s.respA.kind = "http_error" /\ ~IsClientError(s.respA.status)) =>
              SearchAttempts(s) = <<"searchA">>

(***************************************************************************)
(* C23                                                                     *)
(***************************************************************************)
\* Handler s has created a store itself and continues with it.
CreatedOwn(s) ==
    /\ ~s.vectorStore.isNull
    /\ \E i \in 1..Len(s.calls) : s.calls[i] = "createVectorStore"

\* The persisted state loads as absent: no file, or one that does not parse.
LoadsAbsent(file) == file.tag \in {"absent", "corrupt"}

LastCall(s) == IF s.calls = <<>> THEN "" ELSE s.calls[Len(s.calls)]

\* A getOrCreateVectorStore call that loads the state as absent issues a
\* creation call, whatever the other handlers are doing.
AbsentLoadCreates ==
    \A r \in Requests :
        (reqs'[r].fileReads = reqs[r].fileReads + 1 /\ LoadsAbsent(vectorStoreFile))
        => /\ reqs'[r].pc = "createVectorStore"
           /\ LastCall(reqs'[r]) = "createVectorStore"

\* When the creation call of a handler succeeds, the handler continues with
\* the store made for it, and the handlers still waiting for their creation
\* call keep waiting.
CreatorKeepsOwn ==
    \A r \in Requests :
        (reqs[r].pc = "createVectorStore" /\ reqs'[r].pc \in {"searchA", "attach"})
        => /\ reqs'[r].vectorStore = Handle(nextStoreId)
           /\ \A q \in Requests \ {r} : reqs'[q] = reqs[q]

\* C23: concurrent first use is a race.  Every handler that loads the state as
\* absent issues a creation call, also while another creation is in flight;
\* each handler continues with the store it created itself, so two creators
\* hold different handles; and the persisted record is the one of the latest
\* save that was written.
C23_FirstUseRace ==
    /\ [](\A r, q \in Requests :
            (r # q /\ CreatedOwn(reqs[r]) /\ CreatedOwn(reqs[q]))
            => reqs[r].vectorStore # reqs[q].vectorStore)
    /\ [](lastSaved # 0 => vectorStoreFile = FileRecord(lastSaved))
    /\ [][AbsentLoadCreates /\ CreatorKeepsOwn]_vars

\* Two handlers loaded the absent state, created stores 1 and 2, and store 2,
\* saved later, is the persisted one.
C23_Witness ==
    /\ reqs[1].calls = <<"createVectorStore", "searchA">>
    /\ reqs[1].vectorStore = Handle(1) /\ ~reqs[1].existed
    /\ reqs[2].calls = <<"upload", "createVectorStore", "attach">>
    /\ reqs[2].vectorStore = Handle(2) /\ ~reqs[2].existed
    /\ vectorStoreFile = FileRecord(2) /\ lastSaved = 2

(***************************************************************************)
(* C29                                                                     *)
(***************************************************************************)
\* The step in which the creation call of handler r succeeds and the write of
\* the state file fails: a store was made and no save was written.
CreatedUnsaved(r) ==
    /\ reqs[r].pc = "createVectorStore"
    /\ reqs'[r] # reqs[r]
    /\ nextStoreId' = nextStoreId + 1
    /\ lastSaved' = lastSaved

\* C29: when the creation call succeeds and the write of the persisted state
\* fails, getOrCreateVectorStore still returns the new handle (the handler
\* goes on to its next fetch, no error response is sent) and the persisted
\* state is left as it was, so it still loads as absent and the next
\* getOrCreateVectorStore issues a further creation call.
C29_WriteFailureSwallowed ==
    [][/\ \A r \in Requests :
            CreatedUnsaved(r)
            => /\ reqs'[r].pc = NextFetch(reqs[r])
               /\ reqs'[r].vectorStore = Handle(nextStoreId)
               /\ reqs'[r].res.sent = 0
               /\ reqs'[r].fileWrites = reqs[r].fileWrites + 1
               /\ vectorStoreFile' = vectorStoreFile
       /\ AbsentLoadCreates]_vars

\* Two getOrCreateVectorStore calls in a row that each found no state, made a
\* store (1, then 2) and returned it, with the state still absent after both.
C29_Witness ==
    /\ Len(gocLog) = 2
    /\ gocLog[1] = [h |-> Handle(1), creates |-> 1, existed |-> FALSE]
    /\ gocLog[2] = [h |-> Handle(2), creates |-> 1, existed |-> FALSE]
    /\ LoadsAbsent(vectorStoreFile)
    /\ lastSaved = 0
    /\ nextStoreId = 3

(***************************************************************************)
(* C25                                                                     *)
(***************************************************************************)
\* Handler s runs a /mcp request that passed the gate.
McpPastGate(s) ==
    /\ s.in.endpoint = "/mcp"
    /\ s.pc # "idle"
    /\ s.res.by # "authenticate"

\* C25: every /mcp request that passes the gate is answered exactly once,
\* given that every outbound call settles: while it waits for a fetch nothing
\* has been sent, when its handler has ended exactly one response has been
\* sent, and a waiting handler always reaches its end.
C25_AnsweredOnce ==
    /\ [](McpPastGate(reqs[1])
          => /\ reqs[1].res.sent <= 1
             /\ reqs[1].pc \in {"createVectorStore", "searchA", "searchB", "done"}
             /\ reqs[1].res.sent = 1 <=> reqs[1].pc = "done")
    /\ (McpPastGate(reqs[1]) /\ reqs[1].pc # "done")
          ~> (McpPastGate(reqs[1]) /\ reqs[1].pc = "done" /\ reqs[1].res.sent = 1)

\* A search whose provisioning was rejected, then answered with the error of
\* the catch block.
C25_Witness ==
    /\ McpPastGate(reqs[1])
    /\ reqs[1].pc = "done"
    /\ reqs[1].calls = <<"createVectorStore">>
    /\ reqs[1].res.sent = 1
    /\ reqs[1].res.code = -32000
    /\ reqs[1].res.message.status = 500

(***************************************************************************)
(* C26                                                                     *)
(***************************************************************************)
\* A filename-bearing line.
NamesFile(line) == HoldsPdf(line) \/ HoldsLabel(line)

\* The positions of the filename-bearing lines.
FileLineAt(lines) == {i \in 1..Len(lines) : NamesFile(lines[i])}

\* The position of the k-th filename-bearing line.
KthFileLine(lines, k) ==
    CHOOSE i \in FileLineAt(lines) :
        Cardinality({j \in FileLineAt(lines) : j <= i}) = k

\* The lines that follow line i up to the next filename-bearing line.
SegmentOf(lines, i) ==
    {j \in (i + 1)..Len(lines) : \A m \in (i + 1)..j : ~NamesFile(lines[m])}

\* The section line that is attached to the record opened at line i: the last
\* one of its segment.
SectionOf(lines, i) ==
    LET S == {j \in SegmentOf(lines, i) : HoldsSection(lines[j])}
    IN  IF S = {} THEN <<>>
        ELSE Trim(lines[CHOOSE j \in S : \A m \in S : m <= j])

\* A snippet line: content that is neither a section line nor a marker.
IsSnippetLine(line) == ~HoldsSection(line) /\ NotBlank(line) /\ ~HoldsMarker(line)

\* The snippet lines among lines from..to, joined in order.
RECURSIVE JoinSnippets(_, _, _)
JoinSnippets(lines, from, to) ==
    IF from > to THEN <<>>
    ELSE (IF IsSnippetLine(lines[from]) THEN Trim(lines[from]) ELSE <<>>)
         \o JoinSnippets(lines, from + 1, to)

SnippetOf(lines, i) == JoinSnippets(lines, i + 1, i + Cardinality(SegmentOf(lines, i)))

\* C26: the citations of an output text are its filename-bearing lines, one
\* citation per line and in the order of the lines; each holds the section
\* and snippet lines that follow its line up to the next filename-bearing
\* line, so the lines before the first filename-bearing line are in none.
C26_LineScanStructure ==
    \A r \in Requests :
        LET s == reqs[r]
            lines == SelectSeq(Decisive(s).body, NotBlank)
            results == s.res.content.results
        IN  SearchSucceeded(s) =>
                /\ Len(results) = Cardinality(FileLineAt(lines))
                /\ \A k \in 1..Len(results) :
                      LET i == KthFileLine(lines, k)
                      IN  results[k] = [filename |-> extractFilename(lines[i]),
                                        section |-> SectionOf(lines, i),
                                        snippet |-> SnippetOf(lines, i)]

(***************************************************************************)
(* C28                                                                     *)
(***************************************************************************)
\* Handler s runs an /ingest request that passed the gate.
IngestPastGate(s) ==
    /\ s.in.endpoint = "/ingest"
    /\ s.pc # "idle"
    /\ s.res.by # "authenticate"

AllOk(settled) == \A i \in 1..Len(settled) : settled[i] = "ok"

\* The fetches of a successful ingestion: upload, then getOrCreateVectorStore
\* (one load of the state, and a creation call when it gave nothing), then
\* attach.
IngestOrder(s) ==
    /\ s.calls \in {<<"upload", "attach">>, <<"upload", "createVectorStore", "attach">>}
    /\ s.fileReads = 1
    /\ s.calls = <<"upload", "attach">> <=> s.existed

IngestSucceeded(s) == s.res.sent = 1 /\ s.res.status = 200

ServerError(res) ==
    /\ res.sent = 1
    /\ res.status \in 500..599
    /\ res.keys = {"error"}

\* C28: the success response of /ingest is sent only when upload,
\* getOrCreateVectorStore and attach have succeeded, in that order; a request
\* without a file is answered with a 4xx status and no outbound call; when the
\* upload fails nothing is created and the persisted state is not touched; and
\* a step that fails is answered with a 5xx status.
C28_IngestOrdering ==
    /\ [](LET s == reqs[1]
          IN  IngestPastGate(s)
              => /\ IngestSucceeded(s)
                    => /\ IngestOrder(s)
                       /\ Len(s.settled) = Len(s.calls) /\ AllOk(s.settled)
                       /\ ~s.vectorStore.isNull
                 /\ ~s.in.hasFile
                    => /\ s.res.sent = 1 /\ s.res.status \in 400..499
                       /\ s.calls = <<>>
                 /\ (s.settled # <<>> /\ s.settled[1] # "ok")
                    => /\ s.calls = <<"upload">>
                       /\ s.fileReads = 0 /\ s.fileWrites = 0
                 /\ ~AllOk(s.settled)
                    => /\ s.pc = "done"
                       /\ ServerError(s.res))
    /\ [][reqs[1].pc = "upload" /\ reqs'[1].pc = "done"
            => vectorStoreFile' = vectorStoreFile /\ nextStoreId' = nextStoreId]_vars

\* An ingestion that found no state, created a store and attached the file.
C28_Witness ==
    /\ IngestPastGate(reqs[1])
    /\ IngestSucceeded(reqs[1])
    /\ reqs[1].calls = <<"upload", "createVectorStore", "attach">>
    /\ reqs[1].settled = <<"ok", "ok", "ok">>
    /\ reqs[1].vectorStore = Handle(1)

(***************************************************************************)
(* C24                                                                     *)
(***************************************************************************)
\* C24: every handle getOrCreateVectorStore has returned to a handler has an
\* id, also when the persisted record has none.
C24_ValidHandle ==
    \A r \in Requests :
        ~reqs[r].vectorStore.isNull => reqs[r].vectorStore.id # 0

(***************************************************************************)
(* C27                                                                     *)
(***************************************************************************)
\* C27: a request whose jsonrpc field is present with a value other than
\* "2.0" is answered with error -32600 without an outbound call, whatever the
\* value; a request without the field is never rejected for its version.
C27_VersionCheck ==
    \A r \in Requests :
        LET s == reqs[r] IN
        (PassedGate(s) /\ s.in.endpoint \in {"/mcp", "/sse"}) =>
            /\ s.in.jsonrpc \notin {"undefined", JSONRPC_VERSION} =>
                  /\ s.pc = "done"
                  /\ s.res.code = -32600
                  /\ s.calls = <<>>
            /\ s.in.jsonrpc = "undefined" =>
                  s.res.message # Msg("Invalid JSON-RPC version")

====
